---- MODULE Spec2Model ----
(***************************************************************************)
(* EchoScribe AI (src/app.py): the text digest helpers quick_summarize and *)
(* top_words, and the Streamlit session state (transcription, history).    *)
(*                                                                         *)
(* A Python str is modelled as a sequence of one-character strings, so     *)
(* that strip, split, the two regular expressions and lower() are computed *)
(* character by character as the interpreter computes them.                *)
(***************************************************************************)
EXTENDS Integers, Sequences, FiniteSets, TLC

VARIABLES
    doc,            \* the text argument of the helper under call
    fn,             \* which helper was called last: "none", "quick_summarize", "top_words"
    arg,            \* its integer argument (max_sentences or n)
    ret,            \* the value it returned
    path,           \* the return statement quick_summarize left through
    scores,         \* quick_summarize's local list `scores` at its return
    chosen,         \* quick_summarize's local list `chosen` at its return
    transcription,  \* st.session_state.transcription
    history,        \* st.session_state.history
    panel,          \* the records the history panel wrote in the last script run
    last            \* what the last script run did: "init", "upload", "microphone",
                    \* "error" (st.error shown), "clear", "rerun"

vars == <<doc, fn, arg, ret, path, scores, chosen, transcription, history, panel, last>>

digestVars == <<doc, fn, arg, ret, path, scores, chosen>>
sessionVars == <<transcription, history, panel, last>>

----------------------------------------------------------------------------
(* Bounds of the model *)

MaxPieces == 4      \* a document is at most this many pieces concatenated
MaxK == 3           \* largest max_sentences tried
NegK == 1           \* max_sentences is tried down to -NegK
MaxN == 3           \* largest n tried for top_words
MaxHistory == 6     \* transcriptions per session

(* Program constants *)

MinWords == 20      \* len(text.split()) < 20
PanelSize == 5      \* history[::-1][:5]

----------------------------------------------------------------------------
(* Characters *)

Whitespace == {" ", "\t", "\n", "\r", "\f"}

Terminators == {".", "!", "?"}

UpperCase ==
    {"A", "B", "C", "D", "E", "F", "G", "H", "I", "J", "K", "L", "M",
     "N", "O", "P", "Q", "R", "S", "T", "U", "V", "W", "X", "Y", "Z"}

LowerCase ==
    {"a", "b", "c", "d", "e", "f", "g", "h", "i", "j", "k", "l", "m",
     "n", "o", "p", "q", "r", "s", "t", "u", "v", "w", "x", "y", "z"}

\* the character class [A-Za-z']
WordChars == UpperCase \cup LowerCase \cup {"'"}

LowerOf ==
    ("A" :> "a") @@ ("B" :> "b") @@ ("C" :> "c") @@ ("D" :> "d") @@
    ("E" :> "e") @@ ("F" :> "f") @@ ("G" :> "g") @@ ("H" :> "h") @@
    ("I" :> "i") @@ ("J" :> "j") @@ ("K" :> "k") @@ ("L" :> "l") @@
    ("M" :> "m") @@ ("N" :> "n") @@ ("O" :> "o") @@ ("P" :> "p") @@
    ("Q" :> "q") @@ ("R" :> "r") @@ ("S" :> "s") @@ ("T" :> "t") @@
    ("U" :> "u") @@ ("V" :> "v") @@ ("W" :> "w") @@ ("X" :> "x") @@
    ("Y" :> "y") @@ ("Z" :> "z")

\* str.lower()
str_lower(w) ==
    [i \in 1..Len(w) |-> IF w[i] \in UpperCase THEN LowerOf[w[i]] ELSE w[i]]

STOPWORDS ==
    {<<"a">>, <<"a", "n">>, <<"a", "n", "d">>, <<"a", "r", "e">>,
     <<"a", "s">>, <<"a", "t">>, <<"b", "e">>, <<"b", "y">>,
     <<"f", "o", "r">>, <<"f", "r", "o", "m">>, <<"h", "a", "s">>,
     <<"h", "e">>, <<"i", "n">>, <<"i", "s">>, <<"i", "t">>,
     <<"i", "t", "s">>, <<"o", "f">>, <<"o", "n">>,
     <<"t", "h", "a", "t">>, <<"t", "h", "e">>, <<"t", "o">>,
     <<"w", "a", "s">>, <<"w", "e", "r", "e">>, <<"w", "i", "l", "l">>,
     <<"w", "i", "t", "h">>, <<"y", "o", "u", "r">>, <<"y", "o", "u">>,
     <<"i">>, <<"m", "e">>, <<"m", "y">>, <<"w", "e">>,
     <<"o", "u", "r">>, <<"t", "h", "e", "i", "r", "s">>,
     <<"o", "u", "r", "s">>}

----------------------------------------------------------------------------
(* String helpers of the interpreter, as the code uses them *)

\* the first place from i on whose character is in class (Len(s) + 1: none)
RECURSIVE ScanTo(_, _, _)
ScanTo(s, class, i) ==
    IF i > Len(s) \/ s[i] \in class THEN i ELSE ScanTo(s, class, i + 1)

\* the first place from i on whose character is not in class
RECURSIVE ScanPast(_, _, _)
ScanPast(s, class, i) ==
    IF i > Len(s) \/ s[i] \notin class THEN i ELSE ScanPast(s, class, i + 1)

\* the maximal runs of characters of class in s from i on, left to right
RECURSIVE RunsOf(_, _, _, _)
RunsOf(s, class, i, acc) ==
    LET from == ScanTo(s, class, i)
        upto == ScanPast(s, class, from)
    IN  IF from > Len(s) THEN acc
        ELSE RunsOf(s, class, upto, Append(acc, SubSeq(s, from, upto - 1)))

\* the maximal runs of characters outside class in s from i on
RECURSIVE RunsOutside(_, _, _, _)
RunsOutside(s, class, i, acc) ==
    LET from == ScanPast(s, class, i)
        upto == ScanTo(s, class, from)
    IN  IF from > Len(s) THEN acc
        ELSE RunsOutside(s, class, upto, Append(acc, SubSeq(s, from, upto - 1)))

\* re.findall(r"[A-Za-z']+", s)
re_findall(s) == RunsOf(s, WordChars, 1, <<>>)

\* s.split(): the maximal runs of non-whitespace characters
str_split(s) == RunsOutside(s, Whitespace, 1, <<>>)

\* s.strip()
str_strip(s) ==
    LET keep == {i \in 1..Len(s) : s[i] \notin Whitespace}
    IN  IF keep = {} THEN <<>>
        ELSE LET lo == CHOOSE i \in keep : \A j \in keep : i <= j
                 hi == CHOOSE i \in keep : \A j \in keep : j <= i
             IN  SubSeq(s, lo, hi)

\* the first place from i on where the pattern (?<=[.!?])\s+ matches:
\* a whitespace character right after a terminator (Len(s) + 1: none)
RECURSIVE NextCut(_, _)
NextCut(s, i) ==
    IF i > Len(s) THEN i
    ELSE IF s[i] \in Whitespace /\ i > 1 /\ s[i - 1] \in Terminators THEN i
    ELSE NextCut(s, i + 1)

\* re.split(r'(?<=[.!?])\s+', s): cut at every whitespace run that follows
\* a terminator; the run is dropped, the terminator stays with its sentence;
\* the remainder after the last cut is always appended, even when empty.
RECURSIVE SplitFrom(_, _, _)
SplitFrom(s, i, acc) ==
    LET cut == NextCut(s, i)
    IN  IF cut > Len(s)
        THEN Append(acc, SubSeq(s, i, Len(s)))
        ELSE SplitFrom(s, ScanPast(s, Whitespace, cut),
                       Append(acc, SubSeq(s, i, cut - 1)))

re_split(s) == SplitFrom(s, 1, <<>>)

\* sep.join(parts)
RECURSIVE str_join(_, _)
str_join(sep, parts) ==
    IF parts = <<>> THEN <<>>
    ELSE IF Len(parts) = 1 THEN parts[1]
    ELSE parts[1] \o sep \o str_join(sep, Tail(parts))

\* seq[:n], n of either sign
slice_to(seq, n) ==
    IF n >= 0
    THEN SubSeq(seq, 1, IF n < Len(seq) THEN n ELSE Len(seq))
    ELSE SubSeq(seq, 1, Len(seq) + n)

\* seq[::-1]
reversed(seq) == [i \in 1..Len(seq) |-> seq[Len(seq) + 1 - i]]

\* [w for w in words if w not in STOPWORDS]
RECURSIVE without_stopwords(_)
without_stopwords(words) ==
    IF words = <<>> THEN <<>>
    ELSE IF Head(words) \notin STOPWORDS
         THEN <<Head(words)>> \o without_stopwords(Tail(words))
         ELSE without_stopwords(Tail(words))

\* [w.lower() for w in words]
lower_all(words) == [i \in 1..Len(words) |-> str_lower(words[i])]

\* Counter(words): the (word, count) items in order of first insertion
RECURSIVE CounterFrom(_, _, _)
CounterFrom(words, i, items) ==
    IF i > Len(words) THEN items
    ELSE LET w == words[i]
             at == {j \in 1..Len(items) : items[j][1] = w}
         IN  IF at = {}
             THEN CounterFrom(words, i + 1, Append(items, <<w, 1>>))
             ELSE LET j == CHOOSE x \in at : TRUE
                  IN  CounterFrom(words, i + 1,
                                  [items EXCEPT ![j] = <<w, items[j][2] + 1>>])

Counter(words) == CounterFrom(words, 1, <<>>)

\* freq.get(w, 0)
counter_get(freq, w) ==
    LET at == {j \in 1..Len(freq) : freq[j][1] = w}
    IN  IF at = {} THEN 0 ELSE freq[CHOOSE j \in at : TRUE][2]

RECURSIVE SumSeq(_)
SumSeq(ns) == IF ns = <<>> THEN 0 ELSE Head(ns) + SumSeq(Tail(ns))

----------------------------------------------------------------------------
(* quick_summarize *)

\* sentence_score with a fault: each distinct token of the sentence counted once
sentence_score_distinct(s, freq) ==
    LET sw == lower_all(re_findall(s))
    IN  SumSeq([j \in 1..Len(sw) |->
                   IF \E i \in 1..(j - 1) : sw[i] = sw[j]
                   THEN 0 ELSE counter_get(freq, sw[j])])

\* sw = [w.lower() for w in re.findall(..., s)]
\* score = sum(freq.get(w, 0) for w in sw)
sentence_score(s, freq) ==
    LET sw == lower_all(re_findall(s))
    IN  SumSeq([j \in 1..Len(sw) |-> counter_get(freq, sw[j])])

\* the loop building scores: one (score, i, s) per sentence, i from 0
build_scores(sents, freq) ==
    [j \in 1..Len(sents) |-> <<sentence_score(sents[j], freq), j - 1, sents[j]>>]

\* tuple_less with a fault: among equal scores the earlier sentence ranks higher
tuple_less_earlier_first(a, b) == a[1] < b[1] \/ (a[1] = b[1] /\ a[2] > b[2])

\* (score, i, s) < (score', i', s') as Python orders tuples; i is distinct
\* within one list, so the comparison never reaches the sentence text
tuple_less(a, b) == a[1] < b[1] \/ (a[1] = b[1] /\ a[2] < b[2])

RECURSIVE InsertDescending(_, _)
InsertDescending(sorted, x) ==
    IF sorted = <<>> THEN <<x>>
    ELSE IF tuple_less(Head(sorted), x)
         THEN <<x>> \o sorted
         ELSE <<Head(sorted)>> \o InsertDescending(Tail(sorted), x)

RECURSIVE SortDescendingFrom(_, _, _)
SortDescendingFrom(seq, i, sorted) ==
    IF i > Len(seq) THEN sorted
    ELSE SortDescendingFrom(seq, i + 1, InsertDescending(sorted, seq[i]))

\* sorted(scores, reverse=True)
sorted_reverse(seq) == SortDescendingFrom(seq, 1, <<>>)

\* top = [s for _, _, s in sorted(scores, reverse=True)[:max_sentences]]
top_sentences(scrs, max_sentences) ==
    LET cut == slice_to(sorted_reverse(scrs), max_sentences)
    IN  [j \in 1..Len(cut) |-> cut[j][3]]

\* chosen_pairs with a fault: one pair per entry of top that matches
RECURSIVE chosen_pairs_per_match(_, _)
chosen_pairs_per_match(scrs, top) ==
    IF scrs = <<>> THEN <<>>
    ELSE LET e == Head(scrs)
             m == Cardinality({j \in 1..Len(top) : top[j] = e[3]})
         IN  [j \in 1..m |-> <<e[2], e[3]>>] \o chosen_pairs_per_match(Tail(scrs), top)

\* [(i, s) for _, i, s in scores if s in top]
RECURSIVE chosen_pairs(_, _)
chosen_pairs(scrs, top) ==
    IF scrs = <<>> THEN <<>>
    ELSE LET e == Head(scrs)
         IN  IF \E j \in 1..Len(top) : top[j] = e[3]
             THEN <<<<e[2], e[3]>>>> \o chosen_pairs(Tail(scrs), top)
             ELSE chosen_pairs(Tail(scrs), top)

RECURSIVE InsertByIndex(_, _)
InsertByIndex(sorted, x) ==
    IF sorted = <<>> THEN <<x>>
    ELSE IF x[1] < Head(sorted)[1]
         THEN <<x>> \o sorted
         ELSE <<Head(sorted)>> \o InsertByIndex(Tail(sorted), x)

RECURSIVE SortByIndexFrom(_, _, _)
SortByIndexFrom(seq, i, sorted) ==
    IF i > Len(seq) THEN sorted
    ELSE SortByIndexFrom(seq, i + 1, InsertByIndex(sorted, seq[i]))

\* sorted_by_index with a fault: sorted with reverse=True
sorted_by_index_reversed(pairs) == reversed(SortByIndexFrom(pairs, 1, <<>>))

\* sorted(pairs, key=lambda x: x[0])
sorted_by_index(pairs) == SortByIndexFrom(pairs, 1, <<>>)

\* few_sentences with a fault: < for <=
few_sentences_strict(sents, max_sentences) == Len(sents) < max_sentences

\* len(sents) <= max_sentences
few_sentences(sents, max_sentences) == Len(sents) <= max_sentences

\* not text or len(text.split()) < 20
too_short(text) == text = <<>> \/ Len(str_split(text)) < MinWords

\* the call quick_summarize(text, max_sentences): the value returned, the
\* return statement taken and the locals scores and chosen at that point
quick_summarize(text, max_sentences) ==
    IF too_short(text)
    THEN [ret |-> text, path |-> "short", scores |-> <<>>, chosen |-> <<>>]
    ELSE
    LET sents == re_split(str_strip(text))
    IN  IF few_sentences(sents, max_sentences)
        THEN [ret |-> text, path |-> "few", scores |-> <<>>, chosen |-> <<>>]
        ELSE
        LET words == without_stopwords(lower_all(re_findall(text)))
            freq == Counter(words)
            scrs == build_scores(sents, freq)
            top == top_sentences(scrs, max_sentences)
            chsn == sorted_by_index(chosen_pairs(scrs, top))
        IN  [ret |-> str_join(<<" ">>, [j \in 1..Len(chsn) |-> chsn[j][2]]),
             path |-> "summary", scores |-> scrs, chosen |-> chsn]

----------------------------------------------------------------------------
(* top_words *)

\* items before x in a stable sort by count, largest first
RECURSIVE InsertByCount(_, _)
InsertByCount(sorted, x) ==
    IF sorted = <<>> THEN <<x>>
    ELSE IF Head(sorted)[2] < x[2]
         THEN <<x>> \o sorted
         ELSE <<Head(sorted)>> \o InsertByCount(Tail(sorted), x)

RECURSIVE SortByCountFrom(_, _, _)
SortByCountFrom(seq, i, sorted) ==
    IF i > Len(seq) THEN sorted
    ELSE SortByCountFrom(seq, i + 1, InsertByCount(sorted, seq[i]))

\* most_common with a fault: equal counts come out last seen first
most_common_last_seen_first(items, n) ==
    IF n <= 0 THEN <<>>
    ELSE slice_to(SortByCountFrom(reversed(items), 1, <<>>), n)

\* Counter.most_common(n): heapq.nlargest(n, items, key=count), which is
\* sorted(items, key=count, reverse=True)[:n] and empty for n <= 0
most_common(items, n) ==
    IF n <= 0 THEN <<>>
    ELSE slice_to(SortByCountFrom(items, 1, <<>>), n)

\* top_words with a fault: stopwords filtered before lowercasing
top_words_filter_first(text, n) ==
    LET words == lower_all(without_stopwords(re_findall(text)))
    IN  most_common(Counter(words), n)

top_words(text, n) ==
    LET words == without_stopwords(lower_all(re_findall(text)))
    IN  most_common(Counter(words), n)

----------------------------------------------------------------------------
(* The documents tried: every concatenation of at most MaxPieces pieces *)

\* "I'm 7 a.m. On  ox ox!\n"
Piece1 ==
    <<"I", "'", "m", " ", "7", " ", "a", ".", "m", ".", " ",
      "O", "n", " ", " ", "o", "x", " ", "o", "x", "!", "\n">>

\* "Ox ax x y z. "
Piece2 ==
    <<"O", "x", " ", "a", "x", " ", "x", " ", "y", " ", "z", ".", " ">>

\* "Z y x ax ox? "
Piece3 ==
    <<"Z", " ", "y", " ", "x", " ", "a", "x", " ", "o", "x", "?", " ">>

\* " it is to be of"
Piece4 ==
    <<" ", "i", "t", " ", "i", "s", " ", "t", "o", " ", "b", "e", " ", "o", "f">>

Pieces == {Piece1, Piece2, Piece3, Piece4}

RECURSIVE Concat(_)
Concat(ps) == IF ps = <<>> THEN <<>> ELSE Head(ps) \o Concat(Tail(ps))

Documents ==
    {Concat(ps) : ps \in UNION {[1..m -> Pieces] : m \in 0..MaxPieces}}

----------------------------------------------------------------------------
(* The helpers under call *)

Init ==
    /\ doc \in Documents
    /\ fn = "none"
    /\ arg = 0
    /\ ret = <<>>
    /\ path = "none"
    /\ scores = <<>>
    /\ chosen = <<>>
    /\ transcription = ""
    /\ history = <<>>
    /\ panel = <<>>
    /\ last = "init"

\* one call per document: the helpers keep nothing between calls
CallQuickSummarize(k) ==
    /\ fn = "none"
    /\ \E r \in {quick_summarize(doc, k)} :
        /\ fn' = "quick_summarize"
        /\ arg' = k
        /\ ret' = r.ret
        /\ path' = r.path
        /\ scores' = r.scores
        /\ chosen' = r.chosen
        /\ UNCHANGED <<doc, sessionVars>>

CallTopWords(n) ==
    /\ fn = "none"
    /\ fn' = "top_words"
    /\ arg' = n
    /\ ret' = top_words(doc, n)
    /\ path' = "none"
    /\ scores' = <<>>
    /\ chosen' = <<>>
    /\ UNCHANGED <<doc, sessionVars>>

Next ==
    \/ \E k \in (0 - NegK)..MaxK : CallQuickSummarize(k)
    \/ \E n \in 0..MaxN : CallTopWords(n)

Spec == Init /\ [][Next]_vars

----------------------------------------------------------------------------
(* The session: one action per script run, from the interaction that      *)
(* triggers it to the history panel at the end of the script.  The summary *)
(* and the chart are drawn from the transcription and keep no state.       *)

\* sidebar selectbox, index=0
Language == "en-US"

UploadNames == {"talk.mp3"}

\* what transcribe_wav_path returns: the recognised text, or the message
\* of its `except sr.UnknownValueError` branch
Recognised == "hello world"
NotUnderstood == "Error: Could not understand the audio (maybe too noisy or unclear)."
Texts == {Recognised, NotUnderstood}

\* for item in st.session_state.history[::-1][:5]
history_panel(h) == slice_to(reversed(h), PanelSize)

InitApp ==
    /\ doc = <<>>
    /\ fn = "none"
    /\ arg = 0
    /\ ret = <<>>
    /\ path = "none"
    /\ scores = <<>>
    /\ chosen = <<>>
    /\ transcription = ""
    /\ history = <<>>
    /\ panel = <<>>
    /\ last = "init"

\* `if uploaded and do_transcribe:`, the try block run to its end
TranscribeUpload(name, text) ==
    /\ Len(history) < MaxHistory
    /\ transcription' = text
    /\ history' = Append(history,
                         [source |-> "Upload: " \o name, lang |-> Language, text |-> text])
    /\ panel' = history_panel(history')
    /\ last' = "upload"
    /\ UNCHANGED digestVars

\* `if audio_bytes and rec_transcribe:`, the try block run to its end
TranscribeRecorded(text) ==
    /\ Len(history) < MaxHistory
    /\ transcription' = text
    /\ history' = Append(history,
                         [source |-> "Microphone", lang |-> Language, text |-> text])
    /\ panel' = history_panel(history')
    /\ last' = "microphone"
    /\ UNCHANGED digestVars

\* either handler, an exception raised before `text` is assigned to the
\* session (conversion, temp file, os.remove): `except Exception` shows it
TranscribeRaises ==
    /\ panel' = history_panel(history)
    /\ last' = "error"
    /\ UNCHANGED <<transcription, history, digestVars>>

\* Clear with a fault: the history is emptied with the transcription
ClearAndForget ==
    /\ transcription # ""
    /\ transcription' = ""
    /\ history' = <<>>
    /\ panel' = history_panel(history')
    /\ last' = "clear"
    /\ UNCHANGED digestVars

\* the Clear button, drawn only while the transcription is non-empty;
\* st.experimental_rerun() restarts the script, which then runs to its end
Clear ==
    /\ transcription # ""
    /\ transcription' = ""
    /\ panel' = history_panel(history)
    /\ last' = "clear"
    /\ UNCHANGED <<history, digestVars>>

\* any other interaction: no handler runs
Rerun ==
    /\ panel' = history_panel(history)
    /\ last' = "rerun"
    /\ UNCHANGED <<transcription, history, digestVars>>

NextApp ==
    \/ \E name \in UploadNames, text \in Texts : TranscribeUpload(name, text)
    \/ \E text \in Texts : TranscribeRecorded(text)
    \/ TranscribeRaises
    \/ Clear
    \/ Rerun

AppSpec == InitApp /\ [][NextApp]_vars

----------------------------------------------------------------------------
(* Vocabulary of the properties *)

\* the sentences of d: d split after '.', '!' or '?' followed by whitespace
Sentences(d) == re_split(str_strip(d))

\* the whitespace-delimited words of d
NumWords(d) == Len(str_split(d))

\* the lowercase tokens of s, stopwords included
Tokens(s) == lower_all(re_findall(s))

\* how often token w occurs in the token list toks
Occurrences(w, toks) == Cardinality({i \in 1..Len(toks) : toks[i] = w})

\* parts[1] parts[2] ... with exactly one space between neighbours
RECURSIVE SpaceSeparated(_, _)
SpaceSeparated(parts, i) ==
    IF i > Len(parts) THEN <<>>
    ELSE IF i = Len(parts) THEN parts[i]
    ELSE parts[i] \o <<" ">> \o SpaceSeparated(parts, i + 1)

\* the sentences of a returned summary
SummarySentences(r) == IF r = <<>> THEN <<>> ELSE re_split(r)

Summarised == fn = "quick_summarize" /\ path = "summary"

\* C1: a summary that is not the identity fallback has at most k sentences,
\* for every document and every k >= 1, repeated sentences included.
C1_BoundedLength ==
    (Summarised /\ arg >= 1) => Len(SummarySentences(ret)) <= arg

\* C2: for k >= 1, quick_summarize returns the document itself, unchanged,
\* when it is empty, has fewer than 20 words, or has at most k sentences.
C2_IdentityFallback ==
    (/\ fn = "quick_summarize"
     /\ arg >= 1
     /\ \/ doc = <<>>
        \/ NumWords(doc) < MinWords
        \/ Len(Sentences(doc)) <= arg)
    => (ret = doc /\ path \in {"short", "few"})

\* a document of 20 words or more with exactly k sentences came back
\* unchanged although stripping and re-joining it would have changed it
C2_Witness ==
    /\ fn = "quick_summarize"
    /\ arg >= 1
    /\ NumWords(doc) >= MinWords
    /\ Len(Sentences(doc)) = arg
    /\ ret = doc
    /\ doc # SpaceSeparated(Sentences(doc), 1)

\* C3: a non-positive max_sentences is clamped to 1: the result equals that
\* of quick_summarize(d, 1).
C3_ClampedToOne ==
    (fn = "quick_summarize" /\ arg <= 0) => ret = quick_summarize(doc, 1).ret

\* the entries of scrs that fewer than k entries beat: the first k entries
\* of scrs sorted by (score descending, original index ascending)
TopLowerIndexFirst(scrs, k) ==
    {e \in {scrs[j] : j \in 1..Len(scrs)} :
        Cardinality({j \in 1..Len(scrs) :
            \/ scrs[j][1] > e[1]
            \/ (scrs[j][1] = e[1] /\ scrs[j][2] < e[2])}) < k}

\* the same with ties going to the later sentence: the first k entries of
\* scrs sorted by (score descending, original index descending)
TopHigherIndexFirst(scrs, k) ==
    {e \in {scrs[j] : j \in 1..Len(scrs)} :
        Cardinality({j \in 1..Len(scrs) :
            \/ scrs[j][1] > e[1]
            \/ (scrs[j][1] = e[1] /\ scrs[j][2] > e[2])}) < k}

ChosenIndices == {chosen[j][1] : j \in 1..Len(chosen)}

NoRepeatedSentence(scrs) ==
    \A i, j \in 1..Len(scrs) : i # j => scrs[i][3] # scrs[j][3]

\* C4 as stated: the selected sentences are exactly the first max_sentences
\* entries by (score descending, original index ascending); taken here on
\* documents whose sentences are pairwise different.
C4_LowerIndexWins ==
    (Summarised /\ arg >= 1 /\ NoRepeatedSentence(scores))
    => ChosenIndices = {e[2] : e \in TopLowerIndexFirst(scores, arg)}

\* C4 amended: the top slice is the first max_sentences entries by (score
\* descending, original index descending), a tie going to the later
\* sentence, and the selected sentences are exactly those whose text is the
\* text of an entry of that slice.
C4_HigherIndexWins ==
    (Summarised /\ arg >= 1)
    => \A top \in {TopHigherIndexFirst(scores, arg)} :
          \A j \in 1..Len(scores) :
              (scores[j][2] \in ChosenIndices) <=> (\E e \in top : e[3] = scores[j][3])

\* two sentences of different text tie, only the later one is selected
C4_Witness ==
    /\ Summarised
    /\ arg >= 1
    /\ \E i, j \in 1..Len(scores) :
          /\ i < j
          /\ scores[i][1] = scores[j][1]
          /\ scores[i][3] # scores[j][3]
          /\ scores[j][2] \in ChosenIndices
          /\ scores[i][2] \notin ChosenIndices

\* C5: the selected sentences stand in the summary in document order,
\* whatever their scores, joined by exactly one space.
C5_OrderPreserved ==
    Summarised
    => /\ \A i, j \in 1..Len(chosen) : i < j => chosen[i][1] < chosen[j][1]
       /\ \A sents \in {Sentences(doc)} :
             \A j \in 1..Len(chosen) :
                 /\ chosen[j][1] + 1 \in 1..Len(sents)
                 /\ chosen[j][2] = sents[chosen[j][1] + 1]
       /\ ret = SpaceSeparated([j \in 1..Len(chosen) |-> chosen[j][2]], 1)

\* an earlier selected sentence scores lower than a later selected one
C5_Witness ==
    /\ Summarised
    /\ \E i, j \in 1..Len(scores) :
          /\ i < j
          /\ scores[i][1] < scores[j][1]
          /\ {scores[i][2], scores[j][2]} \subseteq ChosenIndices
    /\ Len(SummarySentences(ret)) >= 2

\* C6: every sentence of the result is verbatim a sentence of the document,
\* and no sentence position of the document contributes twice; the
\* fallback result is the document itself.
C6_VerbatimSubset ==
    fn = "quick_summarize"
    => \A sents \in {Sentences(doc)}, out \in {SummarySentences(ret)} :
          /\ path = "summary" =>
                /\ \A j \in 1..Len(out) : \E i \in 1..Len(sents) : out[j] = sents[i]
                /\ Len(out) = Len(chosen)
                /\ \A j \in 1..Len(out) :
                      /\ chosen[j][1] + 1 \in 1..Len(sents)
                      /\ out[j] = sents[chosen[j][1] + 1]
                /\ \A i, j \in 1..Len(chosen) :
                      i # j => chosen[i][1] # chosen[j][1]
          /\ path # "summary" => ret = doc

\* a summary that leaves sentences out and keeps a sentence whose text
\* occurs at two positions of the document
C6_Witness ==
    /\ Summarised
    /\ arg >= 2
    /\ Len(chosen) < Len(scores)
    /\ \E i, j \in 1..Len(chosen) : i # j /\ chosen[i][2] = chosen[j][2]

\* the tokens of d that count: lowercase, stopwords left out
ContentTokens(d) ==
    LET toks == Tokens(d)
    IN  {toks[i] : i \in 1..Len(toks)} \ STOPWORDS

\* the place of the first occurrence of w in toks
FirstSeen(w, toks) ==
    CHOOSE i \in 1..Len(toks) : toks[i] = w /\ \A j \in 1..(i - 1) : toks[j] # w

\* C7: top_words never returns a stopword, and returns nothing when every
\* token of the document is a stopword.
C7_NoStopwordRanked ==
    fn = "top_words"
    => /\ \A j \in 1..Len(ret) : ret[j][1] \notin STOPWORDS
       /\ ContentTokens(doc) = {} => ret = <<>>

\* words were returned for a document that holds a capitalised stopword
C7_Witness ==
    /\ fn = "top_words"
    /\ ret # <<>>
    /\ \E w \in {re_findall(doc)[i] : i \in 1..Len(re_findall(doc))} :
          w \notin STOPWORDS /\ str_lower(w) \in STOPWORDS

\* C8: top_words returns min(n, distinct content tokens) pairs of a lowercase
\* token and its exact count, by count descending and, among equal counts,
\* by first occurrence; no token left out has a higher count than one kept.
C8_RankedByCount ==
    fn = "top_words"
    => \A toks \in {Tokens(doc)}, words \in {ContentTokens(doc)} :
          /\ Len(ret) = IF arg < Cardinality(words) THEN arg ELSE Cardinality(words)
          /\ \A j \in 1..Len(ret) :
                /\ ret[j][1] \in words
                /\ \A c \in 1..Len(ret[j][1]) : ret[j][1][c] \notin UpperCase
                /\ ret[j][2] = Occurrences(ret[j][1], toks)
          /\ \A i, j \in 1..Len(ret) :
                i < j => \/ ret[i][2] > ret[j][2]
                         \/ /\ ret[i][2] = ret[j][2]
                            /\ FirstSeen(ret[i][1], toks) < FirstSeen(ret[j][1], toks)
          /\ \A w \in words \ {ret[j][1] : j \in 1..Len(ret)} :
                \A j \in 1..Len(ret) :
                    \/ Occurrences(w, toks) < ret[j][2]
                    \/ /\ Occurrences(w, toks) = ret[j][2]
                       /\ FirstSeen(ret[j][1], toks) < FirstSeen(w, toks)

\* two returned tokens tie and a token of the same count is cut off
C8_Witness ==
    /\ fn = "top_words"
    /\ Len(ret) >= 2
    /\ ret[Len(ret) - 1][2] = ret[Len(ret)][2]
    /\ \E w \in ContentTokens(doc) \ {ret[j][1] : j \in 1..Len(ret)} :
          Occurrences(w, Tokens(doc)) = ret[Len(ret)][2]

\* the score of sentence s in document tokens docToks: over every token
\* occurrence of s, the token's count in the document, stopwords counting 0
RECURSIVE FrequencySum(_, _, _)
FrequencySum(sentToks, i, docToks) ==
    IF i > Len(sentToks) THEN 0
    ELSE (IF sentToks[i] \in STOPWORDS THEN 0 ELSE Occurrences(sentToks[i], docToks))
         + FrequencySum(sentToks, i + 1, docToks)

\* C9: in a summary, a sentence's score is the sum over its token
\* occurrences of the token's count among the document's non-stopword
\* tokens, and no sentence left out scores higher than one kept.
C9_ScoreAndSelection ==
    Summarised
    => \A sents \in {Sentences(doc)}, docToks \in {Tokens(doc)} :
          /\ Len(scores) = Len(sents)
          /\ \A j \in 1..Len(scores) :
                scores[j] = <<FrequencySum(Tokens(sents[j]), 1, docToks), j - 1, sents[j]>>
          /\ \A i, j \in 1..Len(scores) :
                (scores[i][2] \notin ChosenIndices /\ scores[j][2] \in ChosenIndices)
                => scores[i][1] <= scores[j][1]

\* a kept sentence repeats a token, and a sentence is left out
C9_Witness ==
    /\ Summarised
    /\ arg >= 1
    /\ Len(chosen) < Len(scores)
    /\ \E j \in 1..Len(chosen) :
          \E toks \in {Tokens(chosen[j][2])} :
              \E a, b \in 1..Len(toks) :
                  a # b /\ toks[a] = toks[b] /\ toks[a] \notin STOPWORDS

\* C10: the history only grows: a transcription run that completes appends
\* one record holding the new transcription, every other run leaves the
\* history as it is, Clear only empties the transcription, and the panel
\* shows the 5 most recent records at most, newest first.
C10_HistoryAppendOnly ==
    [][/\ last' \in {"upload", "microphone"} =>
            /\ Len(history') = Len(history) + 1
            /\ SubSeq(history', 1, Len(history)) = history
            /\ history'[Len(history')].text = transcription'
       /\ last' \notin {"upload", "microphone"} => history' = history
       /\ last' = "clear" => transcription' = ""
       /\ Len(panel') = (IF Len(history') < 5 THEN Len(history') ELSE 5)
       /\ \A i \in 1..Len(panel') : panel'[i] = history'[Len(history') + 1 - i]
      ]_vars

\* after more than 5 transcriptions, one of them an error message, the
\* transcription has been cleared
C10_Witness ==
    /\ last = "clear"
    /\ transcription = ""
    /\ Len(history) > 5
    /\ Len(panel) = 5
    /\ \E i \in 1..Len(history) : history[i].text = NotUnderstood
    /\ history[Len(history)].text = NotUnderstood

====
